---------------------------- MODULE Spec2Model ----------------------------
(***************************************************************************)
(* A model of github_extractor.py: the identifier parser, the reference    *)
(* extraction, the paginated comment read, and the solving-PR selection of *)
(* GitHubExtractor, driven by main().                                      *)
(*                                                                         *)
(* Texts are TLA+ strings, read character by character with SubSeq.  The   *)
(* tracker (the GitHub API) is the environment: each request is answered   *)
(* at the moment it is made, by a response drawn from a bounded pool.      *)
(***************************************************************************)
EXTENDS Integers, Sequences, FiniteSets, TLC

(***************************************************************************)
(* Characters and the str/int conversions                                  *)
(***************************************************************************)

\* The character at position i of text s (a one-character string).
At(s, i) == SubSeq(s, i, i)

DigitChars == <<"0", "1", "2", "3", "4", "5", "6", "7", "8", "9">>

UpperChars == "ABCDEFGHIJKLMNOPQRSTUVWXYZ"

LowerChars == "abcdefghijklmnopqrstuvwxyz"

\* Whitespace: what \s matches, within the model's alphabet.
Whitespace == {" ", "\t", "\n"}

\* \d
IsDigit(c) == \E d \in 1..10 : DigitChars[d] = c

IsLetter(c) == \E k \in 1..26 : At(UpperChars, k) = c \/ At(LowerChars, k) = c

\* \w: what \b tells apart from the rest.
IsWordChar(c) == IsDigit(c) \/ IsLetter(c) \/ c = "_"

\* One character under re.IGNORECASE.
ToLower(c) ==
    IF \E k \in 1..26 : At(UpperChars, k) = c
    THEN At(LowerChars, CHOOSE k \in 1..26 : At(UpperChars, k) = c)
    ELSE c

RECURSIVE LowerStr(_)
\* The text as re.IGNORECASE compares it with a lower-case pattern.
LowerStr(s) ==
    IF Len(s) = 0 THEN ""
    ELSE LowerStr(SubSeq(s, 1, Len(s) - 1)) \o ToLower(At(s, Len(s)))

RECURSIVE IntOf(_)
\* int(digits) of a non-empty run of decimal digits.
IntOf(digs) ==
    IF Len(digs) = 0 THEN 0
    ELSE IntOf(SubSeq(digs, 1, Len(digs) - 1)) * 10
         + ((CHOOSE d \in 1..10 : DigitChars[d] = At(digs, Len(digs))) - 1)

\* Whether int(s) succeeds: a non-empty run of digits (the model's alphabet
\* holds no sign, underscore or blank inside an identifier).
IsInt(s) == Len(s) > 0 /\ \A i \in 1..Len(s) : IsDigit(At(s, i))

RECURSIVE StrOf(_)
\* str(n), f"{n}": the decimal digits of n >= 0.
StrOf(n) ==
    IF n < 10 THEN DigitChars[n + 1]
    ELSE StrOf(n \div 10) \o DigitChars[(n % 10) + 1]

\* s[i:].startswith(lit), positions from 1.
StartsWithAt(s, i, lit) ==
    /\ i + Len(lit) - 1 <= Len(s)
    /\ SubSeq(s, i, i + Len(lit) - 1) = lit

\* lit in s
Contains(s, lit) == \E i \in 1..(Len(s) + 1) : StartsWithAt(s, i, lit)

RECURSIVE RunEnd(_, _, _)
\* The last position of the longest run of characters of class cls that
\* starts at position i (i - 1 when there is none): a greedy \d+ or \s+.
RunEnd(s, i, cls) ==
    IF i <= Len(s) /\ At(s, i) \in cls THEN RunEnd(s, i + 1, cls) ELSE i - 1

DigitSet == {DigitChars[d] : d \in 1..10}

(***************************************************************************)
(* GitHubExtractor.extract_pr_references                                   *)
(***************************************************************************)

\* A failed match attempt.
NoMatch == [from |-> 0, end |-> 0]

\* r'#(\d+)' tried at position i: the group is s[from..end].
HashtagMatch(s, i) ==
    IF At(s, i) = "#" /\ i + 1 <= Len(s) /\ IsDigit(At(s, i + 1))
    THEN [from |-> i + 1, end |-> RunEnd(s, i + 1, DigitSet)]
    ELSE NoMatch

\* The literal part of the full-URL pattern, owner and repo re.escape()d.
PullUrlPrefix(owner, repo) ==
    "https://github.com/" \o owner \o "/" \o repo \o "/pull/"

\* rf'https://github\.com/{owner}/{repo}/pull/(\d+)' tried at position i.
UrlMatch(s, i, prefix) ==
    LET d == i + Len(prefix) IN
    IF StartsWithAt(s, i, prefix) /\ d <= Len(s) /\ IsDigit(At(s, d))
    THEN [from |-> d, end |-> RunEnd(s, d, DigitSet)]
    ELSE NoMatch

\* The stems of closes? | fixes? | resolves?  (each takes an optional s).
ClosingStems == {"close", "fixe", "resolve"}

\* (?:closes?|fixes?|resolves?) tried at position i of the lower-cased text:
\* the position after the keyword, 0 when none starts there.  The optional
\* s is taken when present: without it \s+ would have to match that s.
KeywordEnd(ls, i) ==
    IF \E kw \in ClosingStems : StartsWithAt(ls, i, kw)
    THEN LET kw == CHOOSE k \in ClosingStems : StartsWithAt(ls, i, k)
             j  == i + Len(kw)
         IN  IF j <= Len(ls) /\ At(ls, j) = "s" THEN j + 1 ELSE j
    ELSE 0

\* The closing pattern with its '#' optional.
ClosingMatchNoHash(ls, i) ==
    LET j == KeywordEnd(ls, i)
        w == RunEnd(ls, j, Whitespace)
        d == IF w + 1 <= Len(ls) /\ At(ls, w + 1) = "#" THEN w + 2 ELSE w + 1
    IN  IF j > 0 /\ w >= j /\ d <= Len(ls) /\ IsDigit(At(ls, d))
        THEN [from |-> d, end |-> RunEnd(ls, d, DigitSet)]
        ELSE NoMatch

\* r'(?:closes?|fixes?|resolves?)\s+#(\d+)' tried at position i of the
\* lower-cased text ls (re.IGNORECASE; the digits are those of the text).
ClosingMatch(ls, i) ==
    LET j == KeywordEnd(ls, i)
        w == RunEnd(ls, j, Whitespace)
    IN  IF /\ j > 0
           /\ w >= j
           /\ w + 2 <= Len(ls)
           /\ At(ls, w + 1) = "#"
           /\ IsDigit(At(ls, w + 2))
        THEN [from |-> w + 2, end |-> RunEnd(ls, w + 2, DigitSet)]
        ELSE NoMatch

\* One match attempt of pattern pat at position i.
MatchAt(pat, s, i) ==
    CASE pat.kind = "hashtag" -> HashtagMatch(s, i)
      [] pat.kind = "url"     -> UrlMatch(s, i, pat.prefix)
      [] pat.kind = "closing" -> ClosingMatch(s, i)

RECURSIVE FindAll(_, _, _)
\* {int(m) for m in re.findall(pat, s)}: the scan goes left to right and
\* resumes after each match.
FindAll(pat, s, i) ==
    IF i > Len(s) THEN {}
    ELSE LET m == MatchAt(pat, s, i) IN
         IF m.end > 0
         THEN {IntOf(SubSeq(s, m.from, m.end))} \cup FindAll(pat, s, m.end + 1)
         ELSE FindAll(pat, s, i + 1)

\* list(set(pr_numbers)): the numbers the three patterns find, each once.
extract_pr_references(text, owner, repo) ==
    FindAll([kind |-> "hashtag", prefix |-> ""], text, 1)
      \cup FindAll([kind |-> "url", prefix |-> PullUrlPrefix(owner, repo)], text, 1)
      \cup FindAll([kind |-> "closing", prefix |-> ""], LowerStr(text), 1)

(***************************************************************************)
(* parse_github_url                                                        *)
(***************************************************************************)

\* s.find(c) + 1: the first position of character c, 0 when absent.
IndexOf(s, c) ==
    IF \E i \in 1..Len(s) : At(s, i) = c
    THEN CHOOSE i \in 1..Len(s) :
            At(s, i) = c /\ \A j \in 1..(i - 1) : At(s, j) # c
    ELSE 0

RECURSIVE Split(_, _)
\* s.split(sep) for a one-character separator.
Split(s, sep) ==
    LET k == IndexOf(s, sep) IN
    IF k = 0 THEN <<s>>
    ELSE <<SubSeq(s, 1, k - 1)>> \o Split(SubSeq(s, k + 1, Len(s)), sep)

RECURSIVE Strip(_, _)
\* s.strip(c)
Strip(s, c) ==
    IF Len(s) > 0 /\ At(s, 1) = c THEN Strip(SubSeq(s, 2, Len(s)), c)
    ELSE IF Len(s) > 0 /\ At(s, Len(s)) = c
         THEN Strip(SubSeq(s, 1, Len(s) - 1), c)
         ELSE s

\* The first position at or after i of a character of set cs, Len(s) + 1
\* when there is none.
RECURSIVE FirstOf(_, _, _)
FirstOf(s, i, cs) ==
    IF i > Len(s) \/ At(s, i) \in cs THEN i ELSE FirstOf(s, i + 1, cs)

\* urlparse(url).path: the scheme (letters, digits, + - . before the first
\* ':'), the //netloc, the #fragment and the ?query taken off.
UrlPath(url) ==
    LET c       == IndexOf(url, ":")
        scheme  == c > 1 /\ IsLetter(At(url, 1))
                   /\ \A i \in 1..(c - 1) :
                        \/ IsLetter(At(url, i)) \/ IsDigit(At(url, i))
                        \/ At(url, i) \in {"+", "-", "."}
        r1      == IF scheme THEN SubSeq(url, c + 1, Len(url)) ELSE url
        r2      == IF StartsWithAt(r1, 1, "//")
                   THEN SubSeq(r1, FirstOf(r1, 3, {"/", "?", "#"}), Len(r1))
                   ELSE r1
        r3      == SubSeq(r2, 1, FirstOf(r2, 1, {"#"}) - 1)
    IN  SubSeq(r3, 1, FirstOf(r3, 1, {"?"}) - 1)

\* raise ValueError(...)
ParseError == [ok |-> FALSE, owner |-> "", repo |-> "", number |-> 0]

Parsed(owner, repo, digits) ==
    IF IsInt(digits)
    THEN [ok |-> TRUE, owner |-> owner, repo |-> repo, number |-> IntOf(digits)]
    ELSE ParseError

\* The owner/repo#123 branch alone, whatever the identifier starts with.
parse_short_form(url) ==
    IF Contains(url, "#")
    THEN LET hp == Split(url, "#") IN
         IF Len(hp) # 2 THEN ParseError
         ELSE IF Contains(hp[1], "/")
              THEN LET sp == Split(hp[1], "/") IN
                   IF Len(sp) # 2 THEN ParseError
                   ELSE Parsed(sp[1], sp[2], hp[2])
              ELSE ParseError
    ELSE ParseError

\* The URL branch: the path's parts are owner, repo, 'issues', number.
parse_url_form(url) ==
    LET parts == Split(Strip(UrlPath(url), "/"), "/") IN
    IF Len(parts) >= 4 /\ parts[3] = "issues"
    THEN Parsed(parts[1], parts[2], parts[4])
    ELSE ParseError

\* parse_github_url: (owner, repo, issue_number), or ValueError.  An
\* unpacking of the wrong number of parts and a failed int() are ValueErrors
\* too.
parse_github_url(url) ==
    IF StartsWithAt(url, 1, "http")
    THEN parse_url_form(url)
    ELSE parse_short_form(url)

(***************************************************************************)
(* The tracker's answers                                                   *)
(***************************************************************************)

\* An optional text (None, or a missing key): <<>> or <<text>>.
None == <<>>

Some(t) == <<t>>

\* `if body:` -- present and not empty.
Truthy(b) == b # None /\ b[1] # ""

\* `body or ''`
OrEmpty(b) == IF b = None THEN "" ELSE b[1]

\* Comment pages requested before the tracker runs out of comments.
MaxPages == 2

\* comment['body'] of the comments the trackers serve.
CommentA == Some("fixed by #9, closes #4 via #9")

CommentB == Some("also https://github.com/o/r/pull/7")

\* A timeline event: event['event'], event['source']['type'], the
\* pull_request url of event['source']['issue'], and event['commit_id'].
Event(kind, source, pull, commit) ==
    [event |-> kind, source_type |-> source, pull_request |-> pull,
     commit_id |-> commit]

CrossRefPR == Event("cross-referenced", Some("issue"),
                    Some("https://api.github.com/repos/o/r/pulls/9"), None)

CrossRefIssue == Event("cross-referenced", Some("issue"), None, None)

ClosedByCommit == Event("closed", None, None, Some("abc123"))

Labeled == Event("labeled", None, None, None)

\* A pull request as GET /pulls/<n> answers it.
PullResponse(st, state, merged, body) ==
    [status |-> st, state |-> state, merged |-> merged, body |-> body]

\* The answer to a request that failed with status st.
FailedPull(st) == PullResponse(st, "", FALSE, None)

\* A tracker is what it may answer to each of the four reads:
\*   identifiers  the identifiers main() is started with against it,
\*   issue_fails  the status of a failed issue request,
\*   statuses     the status of a failed comments or events request,
\*   bodies       issue['body'] of the issue,
\*   pages        the non-empty comment pages,
\*   events       the event lists,
\*   pulls        the answers to GET /pulls/<n>.
\* A tracker with a busy issue: several comment pages and events, any read
\* may fail, and two answers for a pull request.
IssueTracker ==
    [identifiers |-> {"o/r#4", "https://github.com/o/r/issues/42", "o/r"},
     issue_fails |-> {404, 500},
     statuses    |-> {500},
     bodies      |-> {None, Some("see #7 for context")},
     pages       |-> {<<CommentA>>, <<CommentB, CommentA>>},
     events      |-> {<<CrossRefIssue, Labeled>>,
                      <<CrossRefPR, ClosedByCommit>>},
     pulls       |-> {FailedPull(404),
                      PullResponse(200, "closed", TRUE,
                                   Some("Related work, see issue 4"))}]

\* pr['body'] of the merged pull requests of the tracker below.
PRBodies == {None, Some("Fixes #4"), Some("fixes #42"),
             Some("Related work, see issue 4"), Some("see #7")}

\* pr['body'] of its pull requests that are open or not merged: find_solving_pr
\* never reads these, so only the bodies that name an issue with a closing
\* keyword are served.
UnmergedPRBodies == {Some("Fixes #4"), Some("fixes #42")}

\* A tracker with many pull requests, in every state, whose issue names one
\* or three candidates in its body and has no comments and no events, and of
\* which only a pull request read fails.
PullsTracker ==
    [identifiers |-> {"o/r#4", "https://github.com/o/r/issues/42"},
     issue_fails |-> {},
     statuses    |-> {},
     bodies      |-> {Some("see #7 for context"), Some("see #7, #9 and #4")},
     pages       |-> {},
     events      |-> {<<>>},
     pulls       |-> {FailedPull(404)}
                     \cup {PullResponse(200, "closed", TRUE, b) : b \in PRBodies}
                     \cup {PullResponse(200, st.state, st.merged, b) :
                             st \in {[state |-> "open", merged |-> FALSE],
                                     [state |-> "open", merged |-> TRUE],
                                     [state |-> "closed", merged |-> FALSE]},
                             b \in UnmergedPRBodies}]

(***************************************************************************)
(* The four reads of GitHubExtractor: what each makes of a response.       *)
(* raised: the call raises an Exception; value: what it returns.           *)
(***************************************************************************)

\* get_issue: any status but 200 raises.
get_issue(resp) ==
    [raised |-> resp.status # 200, value |-> resp.body]

\* The loop condition of get_issue_comments: a failed or an empty page ends
\* the loop.
comments_page_ends(resp) == resp.status # 200 \/ resp.items = <<>>

\* The page number left as it is.
next_page_same(page) == page

\* page += 1
next_page(page) == page + 1

\* get_issue_events: the events, [] on any status but 200.
get_issue_events(resp) ==
    [raised |-> FALSE,
     value  |-> IF resp.status = 200 THEN resp.items ELSE <<>>]

\* get_pr raising on any status but 200, as get_issue does.
get_pr_raising(resp, pr_num) ==
    [raised |-> resp.status # 200,
     value  |-> IF resp.status = 200
                THEN <<[number |-> pr_num, state |-> resp.state,
                        merged |-> resp.merged, body |-> resp.body]>>
                ELSE <<>>]

\* get_pr: the pull request, {} (here <<>>) on any status but 200.
get_pr(resp, pr_num) ==
    [raised |-> FALSE,
     value  |-> IF resp.status = 200
                THEN <<[number |-> pr_num, state |-> resp.state,
                        merged |-> resp.merged, body |-> resp.body]>>
                ELSE <<>>]

(***************************************************************************)
(* GitHubExtractor.find_solving_pr: collecting and selecting               *)
(***************************************************************************)

RECURSIVE SetToSeq(_)
\* list(a set of numbers), smallest first.
SetToSeq(S) ==
    IF S = {} THEN <<>>
    ELSE LET m == CHOOSE x \in S : \A y \in S : x <= y
         IN  <<m>> \o SetToSeq(S \ {m})

\* `if body: extract_pr_references(body, owner, repo)` as the list it
\* extends pr_candidates with.
body_refs(b, owner, repo) ==
    IF Truthy(b) THEN SetToSeq(extract_pr_references(b[1], owner, repo))
    ELSE <<>>

RECURSIVE comments_refs(_, _, _)
\* The loop over the comments: the references of each body, in order.
comments_refs(cs, owner, repo) ==
    IF cs = <<>> THEN <<>>
    ELSE body_refs(Head(cs), owner, repo) \o comments_refs(Tail(cs), owner, repo)

\* int(pr_url.split('/')[-1])
pull_number(pr_url) ==
    LET parts == Split(pr_url, "/") IN IntOf(parts[Len(parts)])

\* What one event adds: the number of the pull request that cross-referenced
\* the issue; a 'closed' event with a commit adds nothing.
event_ref(e) ==
    IF /\ e.event = "cross-referenced"
       /\ e.source_type = Some("issue")
       /\ e.pull_request # None
    THEN <<pull_number(e.pull_request[1])>>
    ELSE <<>>

RECURSIVE events_refs(_)
\* The loop over the events.
events_refs(es) ==
    IF es = <<>> THEN <<>> ELSE event_ref(Head(es)) \o events_refs(Tail(es))

\* The elements of a list.
Range(q) == {q[i] : i \in DOMAIN q}

\* The lists that hold each element of S once.
Orders(S) ==
    {q \in [1..Cardinality(S) -> S] : \A i, j \in DOMAIN q : q[i] = q[j] => i = j}

\* The list kept as it is, duplicates included.
keep_duplicates(cands) == {cands}

\* list(set(pr_candidates)): each number once, in an order the set chooses.
dedup(cands) == Orders(Range(cands))

\* `if pr and pr.get('state') == 'closed' and pr.get('merged')`
is_merged_closed(pr) ==
    pr # <<>> /\ pr[1].state = "closed" /\ pr[1].merged

\* `f"#{issue_number}" in pr_body or str(issue_number) in pr_body`
mentions_issue(pr_body, n) ==
    Contains(pr_body, "#" \o StrOf(n)) \/ Contains(pr_body, StrOf(n))

\* The closing pattern matched case-sensitively.
closing_search_cased(pr_body, n) ==
    \E i \in 1..Len(pr_body) :
        LET j == KeywordEnd(pr_body, i)
            w == RunEnd(pr_body, j, Whitespace)
            e == w + 1 + Len(StrOf(n))
        IN  /\ j > 0
            /\ w >= j
            /\ StartsWithAt(pr_body, w + 1, "#" \o StrOf(n))
            /\ (e = Len(pr_body) \/ ~IsWordChar(At(pr_body, e + 1)))

\* re.search(rf'(?:closes?|fixes?|resolves?)\s+#{issue_number}\b', pr_body,
\* re.IGNORECASE): a keyword, blanks, '#', the number, and then a word
\* boundary (the end, or a character that is no letter, digit or '_').
closing_search(pr_body, n) ==
    LET ls == LowerStr(pr_body) IN
    \E i \in 1..Len(ls) :
        LET j == KeywordEnd(ls, i)
            w == RunEnd(ls, j, Whitespace)
            e == w + 1 + Len(StrOf(n))
        IN  /\ j > 0
            /\ w >= j
            /\ StartsWithAt(ls, w + 1, "#" \o StrOf(n))
            /\ (e = Len(ls) \/ ~IsWordChar(At(ls, e + 1)))

\* The result of one pass of the candidate loop.
Step(sol, m, brk) == [solving_pr |-> sol, match |-> m, brk |-> brk]

\* An eligible pull request always replaces the one kept.
select_step_last(solving, m, pr, n) ==
    IF is_merged_closed(pr) /\ mentions_issue(OrEmpty(pr[1].body), n)
    THEN IF closing_search(OrEmpty(pr[1].body), n)
         THEN Step(pr, "strong", TRUE)
         ELSE Step(pr, "weak", FALSE)
    ELSE Step(solving, m, FALSE)

\* A closing-keyword match is taken only when nothing is kept yet.
select_step_first(solving, m, pr, n) ==
    IF is_merged_closed(pr) /\ mentions_issue(OrEmpty(pr[1].body), n)
    THEN IF solving = <<>>
         THEN IF closing_search(OrEmpty(pr[1].body), n)
              THEN Step(pr, "strong", TRUE)
              ELSE Step(pr, "weak", FALSE)
         ELSE Step(solving, m, FALSE)
    ELSE Step(solving, m, FALSE)

\* The merged flag not looked at.
select_step_unmerged(solving, m, pr, n) ==
    IF pr # <<>> /\ pr[1].state = "closed"
       /\ mentions_issue(OrEmpty(pr[1].body), n)
    THEN IF closing_search(OrEmpty(pr[1].body), n)
         THEN Step(pr, "strong", TRUE)
         ELSE IF solving = <<>> THEN Step(pr, "weak", FALSE)
              ELSE Step(solving, m, FALSE)
    ELSE Step(solving, m, FALSE)

\* The body of `for pr_num in pr_candidates` after the fetch: a merged,
\* closed pull request whose body mentions the issue is taken and ends the
\* loop when the closing pattern matches; otherwise it is kept if none is.
select_step(solving, m, pr, n) ==
    IF is_merged_closed(pr) /\ mentions_issue(OrEmpty(pr[1].body), n)
    THEN IF closing_search(OrEmpty(pr[1].body), n)
         THEN Step(pr, "strong", TRUE)
         ELSE IF solving = <<>> THEN Step(pr, "weak", FALSE)
              ELSE Step(solving, m, FALSE)
    ELSE Step(solving, m, FALSE)

(***************************************************************************)
(* The run: main() -> print_issue_and_solution -> find_solving_pr          *)
(***************************************************************************)

VARIABLES
    args_issue,     \* args.issue, the identifier on the command line
    pc,             \* where the run is
    ident,          \* what parse_github_url returned
    issue_log,      \* the response to each get_issue request so far
    pr_candidates,  \* find_solving_pr's list of candidate numbers
    page,           \* get_issue_comments: the page to request next
    comments,       \* get_issue_comments: the comments read so far
    page_log,       \* each comment page requested, with its response
    events_log,     \* the response to the events request, once made
    idx,            \* the position of the candidate loop in pr_candidates
    fetched,        \* each get_pr request so far, with its response
    solving_pr,     \* find_solving_pr's solving_pr: <<>> (None) or <<pr>>
    match,          \* which branch set solving_pr: none, weak or strong
    error,          \* the exception caught: none, format or fetch
    exit_code,      \* <<>> while running, then <<main()'s return value>>
    sample,         \* a text handed to extract_pr_references on its own
    sample_refs     \* <<>>, then <<what it returned for sample>>

vars == <<args_issue, pc, ident, issue_log, pr_candidates, page, comments,
          page_log, events_log, idx, fetched, solving_pr, match, error,
          exit_code, sample, sample_refs>>

run_vars == <<issue_log, pr_candidates, page, comments, page_log,
              events_log, idx, fetched, solving_pr, match>>

\* The state main() starts in, given its argument.
Start(identifier, at, text) ==
    /\ args_issue = identifier
    /\ pc = at
    /\ ident = ParseError
    /\ issue_log = <<>>
    /\ pr_candidates = <<>>
    /\ page = 0
    /\ comments = <<>>
    /\ page_log = <<>>
    /\ events_log = <<>>
    /\ idx = 0
    /\ fetched = <<>>
    /\ solving_pr = <<>>
    /\ match = "none"
    /\ error = "none"
    /\ exit_code = <<>>
    /\ sample = text
    /\ sample_refs = <<>>

Init == \E identifier \in IssueTracker.identifiers : Start(identifier, "main", "")

InitPulls ==
    \E identifier \in PullsTracker.identifiers : Start(identifier, "main", "")

\* main()'s return value: 1 when parse_github_url raised; 0 otherwise, also
\* when print_issue_and_solution caught an exception of its own (line 229).
main_return(parse_ok) == IF parse_ok THEN 0 ELSE 1

\* main(): parse the identifier; a ValueError ends the run with code 1.
Main ==
    /\ pc = "main"
    /\ ident' = parse_github_url(args_issue)
    /\ IF ident'.ok
       THEN /\ pc' = "print_issue"
            /\ UNCHANGED <<error, exit_code>>
       ELSE /\ pc' = "done"
            /\ error' = "format"
            /\ exit_code' = <<main_return(FALSE)>>
    /\ UNCHANGED <<args_issue, run_vars, sample, sample_refs>>

\* An exception inside print_issue_and_solution: its own `except Exception`
\* prints it and returns, and main() goes on to `return 0`.
Caught ==
    /\ pc' = "done"
    /\ error' = "fetch"
    /\ exit_code' = <<main_return(TRUE)>>

\* The answers of tracker T to GET /issues/<n>.
IssueResponses(T) ==
    {[status |-> st, body |-> None] : st \in T.issue_fails}
      \cup [status : {200}, body : T.bodies]

\* print_issue_and_solution: the issue is fetched and printed.
GetIssue(T) ==
    /\ pc = "print_issue"
    /\ \E resp \in IssueResponses(T) :
        /\ issue_log' = Append(issue_log, resp)
        /\ IF get_issue(resp).raised
           THEN Caught
           ELSE pc' = "find_issue" /\ UNCHANGED <<error, exit_code>>
    /\ UNCHANGED <<args_issue, ident, pr_candidates, page, comments, page_log,
                   events_log, idx, fetched, solving_pr, match, sample,
                   sample_refs>>

\* find_solving_pr: the issue is fetched again and its body scanned.
FindGetIssue(T) ==
    /\ pc = "find_issue"
    /\ \E resp \in IssueResponses(T) :
        /\ issue_log' = Append(issue_log, resp)
        /\ IF get_issue(resp).raised
           THEN Caught /\ UNCHANGED <<pr_candidates, page>>
           ELSE /\ pr_candidates' =
                     body_refs(get_issue(resp).value, ident.owner, ident.repo)
                /\ page' = 1
                /\ pc' = "comments"
                /\ UNCHANGED <<error, exit_code>>
    /\ UNCHANGED <<args_issue, ident, comments, page_log, events_log, idx,
                   fetched, solving_pr, match, sample, sample_refs>>

\* The answers of tracker T to GET /issues/<n>/comments?page=p: it holds at
\* most MaxPages pages of comments.
CommentResponses(T, p) ==
    {[status |-> st, items |-> <<>>] : st \in T.statuses \cup {200}}
      \cup (IF p <= MaxPages THEN [status : {200}, items : T.pages] ELSE {})

\* get_issue_comments: one pass of `while True`.  When the loop ends, the
\* comments are returned and find_solving_pr scans each body.
GetCommentsPage(T) ==
    /\ pc = "comments"
    /\ \E resp \in CommentResponses(T, page) :
        /\ page_log' = Append(page_log, [page |-> page, resp |-> resp])
        /\ IF comments_page_ends(resp)
           THEN /\ pr_candidates' = pr_candidates
                     \o comments_refs(comments, ident.owner, ident.repo)
                /\ pc' = "events"
                /\ UNCHANGED <<page, comments>>
           ELSE /\ comments' = comments \o resp.items
                /\ page' = next_page(page)
                /\ UNCHANGED <<pc, pr_candidates>>
    /\ UNCHANGED <<args_issue, ident, issue_log, events_log, idx, fetched,
                   solving_pr, match, error, exit_code, sample, sample_refs>>

\* The answers of tracker T to GET /issues/<n>/events.
EventResponses(T) ==
    {[status |-> st, items |-> <<>>] : st \in T.statuses}
      \cup [status : {200}, items : T.events]

\* find_solving_pr: the events are read and scanned, and the candidates
\* deduplicated (line 140); the candidate loop starts.
GetEvents(T) ==
    /\ pc = "events"
    /\ \E resp \in EventResponses(T) :
        /\ events_log' = <<resp>>
        /\ \E cands \in dedup(pr_candidates
                              \o events_refs(get_issue_events(resp).value)) :
            /\ pr_candidates' = cands
            /\ idx' = 1
            /\ pc' = IF cands = <<>> THEN "report" ELSE "select"
    /\ UNCHANGED <<args_issue, ident, issue_log, page, comments, page_log,
                   fetched, solving_pr, match, error, exit_code, sample,
                   sample_refs>>

\* One pass of `for pr_num in pr_candidates`: the pull request is fetched
\* and judged; a closing-keyword match, or the end of the list, ends the
\* loop and find_solving_pr returns solving_pr.
FetchPR(T) ==
    /\ pc = "select"
    /\ \E resp \in T.pulls :
        LET r == get_pr(resp, pr_candidates[idx]) IN
        /\ fetched' = Append(fetched, [number |-> pr_candidates[idx],
                                       resp |-> resp])
        /\ IF r.raised
           THEN Caught /\ UNCHANGED <<solving_pr, match, idx>>
           ELSE LET stp == select_step(solving_pr, match, r.value, ident.number)
                IN  /\ solving_pr' = stp.solving_pr
                    /\ match' = stp.match
                    /\ IF stp.brk \/ idx = Len(pr_candidates)
                       THEN pc' = "report" /\ idx' = idx
                       ELSE pc' = "select" /\ idx' = idx + 1
                    /\ UNCHANGED <<error, exit_code>>
    /\ UNCHANGED <<args_issue, ident, issue_log, pr_candidates, page, comments,
                   page_log, events_log, sample, sample_refs>>

\* print_issue_and_solution prints the solution, or that none was found, and
\* main() returns.
Report ==
    /\ pc = "report"
    /\ pc' = "done"
    /\ exit_code' = <<main_return(TRUE)>>
    /\ UNCHANGED <<args_issue, ident, run_vars, error, sample, sample_refs>>

\* A run against tracker T.
Run(T) ==
    \/ Main
    \/ GetIssue(T)
    \/ FindGetIssue(T)
    \/ GetCommentsPage(T)
    \/ GetEvents(T)
    \/ FetchPR(T)
    \/ Report

Next == Run(IssueTracker)

NextPulls == Run(PullsTracker)

\* A run against the tracker with the busy issue.
Spec == Init /\ [][Next]_vars

\* A run against the tracker with the many pull requests.
SpecPulls == InitPulls /\ [][NextPulls]_vars

(***************************************************************************)
(* parse_github_url on its own: main() started with each identifier        *)
(***************************************************************************)

Owners == {"octo", "httpie", "a1"}

Repos == {"repo", "cli", "issues"}

Hosts == {"github.com", "h"}

IssueNumbers == {1, 42, 407}

\* "owner/repo#n"
ShortForm(o, r, n) == o \o "/" \o r \o "#" \o StrOf(n)

\* "https://<host>/owner/repo/issues/n"
UrlForm(h, o, r, n) ==
    "https://" \o h \o "/" \o o \o "/" \o r \o "/issues/" \o StrOf(n)

\* Identifiers of neither form.
OtherIdentifiers ==
    {o \o "/" \o r : o \in Owners, r \in Repos}
      \cup {"https://github.com/" \o o \o "/repo/pull/" \o StrOf(n) :
              o \in Owners, n \in IssueNumbers}
      \cup {"https://github.com/" \o o \o "/repo" : o \in Owners}
      \cup {"", "octo#1", "octo/repo#", "octo/repo#x", "a/b/c#1", "a/b#1#2",
            "https://github.com/octo/repo/issues/x"}

ParseIdentifiers ==
    {ShortForm(o, r, n) : o \in Owners, r \in Repos, n \in IssueNumbers}
      \cup {UrlForm(h, o, r, n) :
              h \in Hosts, o \in Owners, r \in Repos, n \in IssueNumbers}
      \cup OtherIdentifiers

InitParse == \E identifier \in ParseIdentifiers : Start(identifier, "main", "")

\* main() up to the return of parse_github_url.
SpecParse == InitParse /\ [][Main]_vars

(***************************************************************************)
(* extract_pr_references on its own                                        *)
(***************************************************************************)

\* The longest sample text, in tokens.
MaxTokens == 3

Tokens == <<"#", "7", " ", "fixes", "Close", "resolve",
            "https://github.com/o/r/pull/", "https://github.com/o/x/pull/">>

RECURSIVE Concat(_)
\* The tokens of a list, joined.
Concat(ts) == IF ts = <<>> THEN "" ELSE Head(ts) \o Concat(Tail(ts))

\* Every text of at most MaxTokens tokens.
SampleTexts ==
    UNION {{Concat([i \in 1..k |-> Tokens[q[i]]]) : q \in [1..k -> DOMAIN Tokens]} :
             k \in 0..MaxTokens}

\* The repositories the samples are read for.
SampleRepos == {"r", "x"}

InitExtract ==
    \E text \in SampleTexts, repo \in SampleRepos :
        Start("o/" \o repo \o "#4", "extract", text)

\* extract_pr_references(sample, owner, repo) is called and returns.
Extract ==
    /\ pc = "extract"
    /\ ident' = parse_github_url(args_issue)
    /\ sample_refs' = <<extract_pr_references(sample, ident'.owner, ident'.repo)>>
    /\ pc' = "extracted"
    /\ UNCHANGED <<args_issue, run_vars, error, exit_code, sample>>

SpecExtract == InitExtract /\ [][Extract]_vars

(***************************************************************************)
(* Properties.  A fetched pull request is an entry f of `fetched`: the     *)
(* number asked for and the tracker's answer.                              *)
(***************************************************************************)

\* The record find_solving_pr holds for a fetched pull request.
PRof(f) ==
    [number |-> f.number, state |-> f.resp.state, merged |-> f.resp.merged,
     body |-> f.resp.body]

\* Fetched successfully, closed and merged.
ClosedMerged(f) ==
    f.resp.status = 200 /\ f.resp.state = "closed" /\ f.resp.merged

\* The body, empty when missing.
BodyText(f) == OrEmpty(f.resp.body)

\* Closed, merged, and the body holds the decimal issue number.
Eligible(f) ==
    ClosedMerged(f) /\ Contains(BodyText(f), StrOf(ident.number))

\* Eligible, and the body matches the closing pattern for this issue.
Strong(f) == Eligible(f) /\ closing_search(BodyText(f), ident.number)

\* The body contains "fixes #N" in any letter case.
SaysFixes(f) ==
    Contains(LowerStr(BodyText(f)), "fixes #" \o StrOf(ident.number))

\* The body contains "fixes #N" in any letter case, and no letter, digit or
\* underscore comes right after that N.
SaysFixesWholeNumber(f) ==
    LET ls  == LowerStr(BodyText(f))
        lit == "fixes #" \o StrOf(ident.number)
    IN  \E i \in 1..Len(ls) :
            /\ StartsWithAt(ls, i, lit)
            /\ \/ i + Len(lit) - 1 = Len(ls)
               \/ ~IsWordChar(At(ls, i + Len(lit)))

\* find_solving_pr has returned its result.
Returned == pc = "report" \/ (pc = "done" /\ error = "none" /\ ident.ok)

\* f is the only fetched pull request that may be eligible.
OthersIneligible(i) ==
    \A j \in DOMAIN fetched : j # i => ~Eligible(fetched[j])

\* C1 as stated: whenever find_solving_pr has returned and a fetched pull
\* request is closed, merged and has "fixes #N" (any letter case) in its
\* body, all other candidates being ineligible, that pull request is the
\* result and was taken as a strong match.
C1_FixesSubstringIsStrongMatch ==
    Returned =>
        \A i \in DOMAIN fetched :
            (/\ ClosedMerged(fetched[i])
             /\ SaysFixes(fetched[i])
             /\ OthersIneligible(i))
            => solving_pr = <<PRof(fetched[i])>> /\ match = "strong"

\* C1 amended: the same, for a body in which the N of "fixes #N" is not
\* directly followed by a letter, a digit or an underscore.
C1_FixesWholeNumberIsStrongMatch ==
    Returned =>
        \A i \in DOMAIN fetched :
            (/\ ClosedMerged(fetched[i])
             /\ SaysFixesWholeNumber(fetched[i])
             /\ OthersIneligible(i))
            => solving_pr = <<PRof(fetched[i])>> /\ match = "strong"

\* A strong match on a capitalised "Fixes #N", returned after two
\* ineligible candidates were fetched.
C1_Witness ==
    /\ Returned
    /\ Len(fetched) = 3
    /\ ClosedMerged(fetched[3])
    /\ SaysFixesWholeNumber(fetched[3])
    /\ BodyText(fetched[3]) # LowerStr(BodyText(fetched[3]))
    /\ OthersIneligible(3)
    /\ match = "strong"

\* C2: a pull request held as the result is closed, merged and has the
\* decimal issue number in its body; and when every fetched candidate is
\* absent, open, unmerged or lacks the number, find_solving_pr returns none.
C2_OnlyEligibleReturned ==
    /\ solving_pr # <<>> =>
         /\ solving_pr[1].state = "closed"
         /\ solving_pr[1].merged
         /\ Contains(OrEmpty(solving_pr[1].body), StrOf(ident.number))
         /\ \E i \in DOMAIN fetched : solving_pr[1] = PRof(fetched[i])
    /\ (Returned /\ \A i \in DOMAIN fetched : ~Eligible(fetched[i]))
         => solving_pr = <<>>

\* None returned after three candidates: one absent, one closed but not
\* merged whose body names the issue, one merged whose body does not.
C2_Witness ==
    /\ Returned
    /\ Len(fetched) = 3
    /\ solving_pr = <<>>
    /\ \E i \in DOMAIN fetched : fetched[i].resp.status # 200
    /\ \E i \in DOMAIN fetched :
         /\ fetched[i].resp.status = 200
         /\ ~fetched[i].resp.merged
         /\ Contains(BodyText(fetched[i]), "#" \o StrOf(ident.number))
    /\ \E i \in DOMAIN fetched :
         ClosedMerged(fetched[i]) /\ ~Eligible(fetched[i])

\* The first eligible pull request in the order fetched.
FirstEligible ==
    CHOOSE i \in DOMAIN fetched :
        Eligible(fetched[i]) /\ \A j \in 1..(i - 1) : ~Eligible(fetched[j])

\* C3: when find_solving_pr has returned and no fetched candidate is a
\* strong match, every candidate was fetched, in the order of the list, and
\* the result is the first eligible one (a weak match), or none when no
\* candidate is eligible.
C3_FirstWeakMatchAfterAll ==
    (Returned /\ \A i \in DOMAIN fetched : ~Strong(fetched[i])) =>
        /\ Len(fetched) = Len(pr_candidates)
        /\ \A i \in DOMAIN fetched : fetched[i].number = pr_candidates[i]
        /\ IF \E i \in DOMAIN fetched : Eligible(fetched[i])
           THEN solving_pr = <<PRof(fetched[FirstEligible])>> /\ match = "weak"
           ELSE solving_pr = <<>> /\ match = "none"

\* A weak match returned: the second of three candidates, with another
\* eligible one, of a different body, after it.
C3_Witness ==
    /\ Returned
    /\ Len(fetched) = 3
    /\ \A i \in DOMAIN fetched : ~Strong(fetched[i])
    /\ ~Eligible(fetched[1])
    /\ Eligible(fetched[2])
    /\ Eligible(fetched[3])
    /\ fetched[2].resp # fetched[3].resp
    /\ solving_pr = <<PRof(fetched[2])>>

\* C9: a fetched strong match is the last pull request fetched, ends the
\* candidate loop and is the result, whatever was kept before it; so a
\* result that is not a strong match means every candidate was fetched and
\* none was one.
C9_StrongMatchShortCircuits ==
    /\ \A i \in DOMAIN fetched :
         Strong(fetched[i]) =>
            /\ i = Len(fetched)
            /\ Returned
            /\ solving_pr = <<PRof(fetched[i])>>
            /\ match = "strong"
    /\ (Returned /\ match # "strong") =>
         /\ Len(fetched) = Len(pr_candidates)
         /\ \A i \in DOMAIN fetched : ~Strong(fetched[i])

\* A strong match returned as the second fetch, after a weak match was
\* kept, with a third candidate never fetched.
C9_Witness ==
    /\ Returned
    /\ Len(fetched) = 2
    /\ Len(pr_candidates) = 3
    /\ Eligible(fetched[1])
    /\ Strong(fetched[2])
    /\ solving_pr = <<PRof(fetched[2])>>

\* The last get_issue request failed.
IssueFetchFailed ==
    issue_log # <<>> /\ issue_log[Len(issue_log)].status # 200

\* C4 as stated: the run ends with exit code 1 when the identifier does not
\* parse or a get_issue request fails, and with 0 otherwise.
C4_ExitCodeTellsFailure ==
    pc = "done" =>
        exit_code = IF ~ident.ok \/ IssueFetchFailed THEN <<1>> ELSE <<0>>

RECURSIVE PageItems(_)
\* The items of the logged pages, in order.
PageItems(log) ==
    IF log = <<>> THEN <<>> ELSE Head(log).resp.items \o PageItems(Tail(log))

\* An empty or failed page.
Stops(resp) == resp.status # 200 \/ resp.items = <<>>

\* The candidates have just been collected: both issue reads, the comments
\* and the events are behind, and no pull request has been fetched yet.
Collected == pc \in {"select", "report"} /\ fetched = <<>>

\* What the collection must have gathered: the references of the issue body,
\* of the comments of the pages before the first empty or failed one, and of
\* the events when their read succeeded.
ExpectedCandidates ==
    Range(body_refs(issue_log[2].body, ident.owner, ident.repo))
      \cup Range(comments_refs(
                    PageItems(SubSeq(page_log, 1, Len(page_log) - 1)),
                    ident.owner, ident.repo))
      \cup (IF events_log[1].status = 200
            THEN Range(events_refs(events_log[1].items))
            ELSE {})

\* C5: an exception is caught only when a get_issue request failed; failed
\* comment pages, events and pull request reads leave the run going with
\* what was collected, the candidate loop always has a candidate to fetch,
\* and the run ends with a result that is none or a successfully fetched
\* pull request.
C5_OnlyIssueFetchAborts ==
    /\ error = "fetch" => IssueFetchFailed /\ fetched = <<>>
    /\ Collected => Range(pr_candidates) = ExpectedCandidates
    /\ pc = "select" => idx \in DOMAIN pr_candidates
    /\ (pc = "done" /\ ident.ok /\ ~IssueFetchFailed) =>
         /\ error = "none"
         /\ exit_code = <<0>>
         /\ Len(fetched) <= Len(pr_candidates)
         /\ solving_pr # <<>> =>
              \E i \in DOMAIN fetched :
                  fetched[i].resp.status = 200 /\ solving_pr = <<PRof(fetched[i])>>

\* A run that ends with a pull request found although the second comment
\* page, the events read and one pull request read failed.
C5_Witness ==
    /\ pc = "done"
    /\ error = "none"
    /\ Len(page_log) = 2
    /\ page_log[2].resp.status # 200
    /\ events_log[1].status # 200
    /\ \E i \in DOMAIN fetched : fetched[i].resp.status # 200
    /\ solving_pr # <<>>

\* C8: no two get_pr requests of a run are for the same number.
C8_EachCandidateFetchedOnce ==
    \A i, j \in DOMAIN fetched :
        fetched[i].number = fetched[j].number => i = j

\* Three pull requests fetched in a run where #9 was named by the comments
\* (twice in a comment, and in two pages) and by a cross-reference event.
C8_Witness ==
    /\ pc = "done"
    /\ Len(comments) = 3
    /\ events_log # <<>>
    /\ events_log[1].status = 200
    /\ \E k \in DOMAIN events_log[1].items : events_log[1].items[k] = CrossRefPR
    /\ Len(fetched) = 3
    /\ \E i \in DOMAIN fetched : fetched[i].number = 9

\* C10: the k-th comment request is for page k; every page before the last
\* requested is a non-empty success; while the loop runs the same is true
\* of the last one, and once it has ended the last page requested is the
\* empty or failed one, and the comments are the items of the pages before
\* it, in order.
C10_CommentPagination ==
    /\ \A k \in DOMAIN page_log : page_log[k].page = k
    /\ \A k \in 1..(Len(page_log) - 1) : ~Stops(page_log[k].resp)
    /\ pc = "comments" =>
         /\ \A k \in DOMAIN page_log : ~Stops(page_log[k].resp)
         /\ page = Len(page_log) + 1
         /\ comments = PageItems(page_log)
    /\ (pc \in {"events", "select", "report"} \/ (pc = "done" /\ page_log # <<>>)) =>
         /\ page_log # <<>>
         /\ Stops(page_log[Len(page_log)].resp)
         /\ comments = PageItems(SubSeq(page_log, 1, Len(page_log) - 1))

\* The comments returned after two pages of comments and a failed third.
C10_Witness ==
    /\ pc = "events"
    /\ Len(page_log) = 3
    /\ page_log[3].resp.status # 200
    /\ Len(page_log[1].resp.items) = 2
    /\ comments = page_log[1].resp.items \o page_log[2].resp.items
    /\ Len(comments) = 3

\* What parse_github_url must return for owner o, repo r, number n.
ParsedAs(o, r, n) == [ok |-> TRUE, owner |-> o, repo |-> r, number |-> n]

\* C6 as stated: "owner/repo#n" and "https://<host>/owner/repo/issues/n"
\* both parse to (owner, repo, n), and an identifier without '#' that is no
\* such URL is a format error.
C6_BothFormsParse ==
    pc # "main" =>
        /\ \A o \in Owners, r \in Repos, n \in IssueNumbers :
             /\ args_issue = ShortForm(o, r, n) => ident = ParsedAs(o, r, n)
             /\ \A h \in Hosts :
                  args_issue = UrlForm(h, o, r, n) => ident = ParsedAs(o, r, n)
        /\ (/\ ~Contains(args_issue, "#")
            /\ \A h \in Hosts, o \in Owners, r \in Repos, n \in IssueNumbers :
                 args_issue # UrlForm(h, o, r, n))
           => ~ident.ok

\* A word the claim names: '#', 'fix', 'close' or 'resolve'.
Markers == {"#", "fix", "close", "resolve"}

\* A digit comes somewhere after an occurrence of marker m (in any letter
\* case): "digits following m" in its widest sense.
DigitAfter(text, m) ==
    \E i \in 1..Len(text) :
        /\ StartsWithAt(LowerStr(text), i, m)
        /\ \E j \in (i + Len(m))..Len(text) : IsDigit(At(text, j))

\* C7 as stated: a text with no digit after a '#', 'fix', 'close' or
\* 'resolve' yields no candidate.
C7_NoMarkedDigitNoCandidate ==
    pc = "extracted" =>
        ((\A m \in Markers : ~DigitAfter(sample, m)) => sample_refs = <<{}>>)

\* A '#' directly followed by a digit.
HashDigit(text) ==
    \E i \in 1..(Len(text) - 1) : At(text, i) = "#" /\ IsDigit(At(text, i + 1))

\* A pull request URL of owner/repo directly followed by a digit.
PullUrlDigit(text, owner, repo) ==
    LET url == "https://github.com/" \o owner \o "/" \o repo \o "/pull/" IN
    \E i \in 1..Len(text) :
        /\ StartsWithAt(text, i, url)
        /\ i + Len(url) <= Len(text)
        /\ IsDigit(At(text, i + Len(url)))

\* C7 amended: a text with no '#' directly followed by a digit and no pull
\* request URL of the same owner/repo directly followed by a digit yields no
\* candidate.
C7_NoReferenceNoCandidate ==
    pc = "extracted" =>
        ((~HashDigit(sample) /\ ~PullUrlDigit(sample, ident.owner, ident.repo))
            => sample_refs = <<{}>>)

\* No candidate from a text that holds a '#', a closing keyword and a digit,
\* but no '#' next to a digit.
C7_Witness ==
    /\ pc = "extracted"
    /\ sample_refs = <<{}>>
    /\ Contains(sample, "#")
    /\ Contains(sample, "fixes")
    /\ \E j \in 1..Len(sample) : IsDigit(At(sample, j))
    /\ ~HashDigit(sample)

==========================================================================
